---- MODULE Spec2Model ----
(***************************************************************************)
(* A model of the Sudoku engine of src/src/sudoku.rs: the grid, the slice  *)
(* accessors, the validity check, the three backtracking searches (first   *)
(* solution, all solutions, bounded count) and the puzzle generator.       *)
(*                                                                         *)
(* The specifications share the definitions:                                *)
(*   Spec       generate(), one loop iteration or search call per step,    *)
(*              for a bounded set of outcomes of the random source;        *)
(*   SolveSpec  a caller that edits a grid cell by cell and applies solve, *)
(*              solve_any, has_unique_solution, is_valid_puzzle and the    *)
(*              three slice accessors to it;                               *)
(*   SeedSpec   create_random_solution alone, a step of the running search *)
(*              never postponed forever;                                   *)
(*   CarveSpec  create_random_blank_positions called on a solved grid with *)
(*              small counts and with counts above the accepted range;     *)
(*   ReadSpec   read_to_grid of src/src/io.rs applied to input texts built *)
(*              line by line.                                              *)
(***************************************************************************)
EXTENDS Integers, Sequences, FiniteSets, TLC

(***************************************************************************)
(* Bounds of the model.                                                    *)
(***************************************************************************)

\* how many outcomes of the random source (ShuffleOutcomes) Spec explores
NumRuns == 3

\* CarveSpec calls create_random_blank_positions with the counts 0..MaxCarve
MaxCarve == 8

\* and with the counts MAX_BLANKS_TO_GENERATE + 1 .. MAX_BLANKS_TO_GENERATE + MaxOver
MaxOver == 2

\* how many lines a ReadSpec input text has at most
MaxLines == 14

\* how many edited cells of a SolveSpec grid may hold a digit other than
\* the base solution's
MaxPuts == 1

\* the largest index the slice accessors are called with
MaxIndex == 10

(***************************************************************************)
(* Program constants.                                                      *)
(***************************************************************************)

\* const DIGITS_ARRAY: [u8; 9]
DIGITS_ARRAY == <<1, 2, 3, 4, 5, 6, 7, 8, 9>>

\* const INDICES_ARRAY: [usize; 9]
INDICES_ARRAY == <<0, 1, 2, 3, 4, 5, 6, 7, 8>>

TARGET_BLANKS_TO_GENERATE == 35

MAX_BLANKS_TO_GENERATE == 64

(***************************************************************************)
(* Option<T>: None is the empty sequence, Some(x) the one-element one.     *)
(***************************************************************************)
None == <<>>

Some(x) == <<x>>

IsSome(o) == o # <<>>

Unwrap(o) == o[1]

\* Option::unwrap_or
UnwrapOr(o, default) == IF o # <<>> THEN o[1] ELSE default

(***************************************************************************)
(* Grid = [[u8; 9]; 9]: puzzle[row][col], row and col in 0..8.             *)
(***************************************************************************)

\* [[0; 9]; 9]
EmptyGrid == [row \in 0..8 |-> [col \in 0..8 |-> 0]]

\* puzzle[row][col] = digit
SetCell(puzzle, row, col, digit) == [puzzle EXCEPT ![row][col] = digit]

\* (0..9).flat_map(|row| (0..9).map(move |col| (row, col))): the 81
\* positions in row-major order
AllPositions == [k \in 1..81 |-> <<(k - 1) \div 9, (k - 1) % 9>>]

(***************************************************************************)
(* The slice accessors.  A view is the sequence of the 9 digits its        *)
(* iterator yields, in order; an index outside 0..8 yields None.           *)
(***************************************************************************)
\* the row accessor without its range check: the index wraps around
horizontal_slice_wrap(puzzle, row) ==
    Some([i \in 1..9 |-> puzzle[row % 9][i - 1]])

horizontal_slice(puzzle, row) ==
    IF row \in 0..8 THEN Some([i \in 1..9 |-> puzzle[row][i - 1]]) ELSE None

vertical_slice(puzzle, col) ==
    IF ~(col \in 0..8) THEN None
    ELSE Some([i \in 1..9 |-> puzzle[i - 1][col]])

\* the box table with one wrong entry: box 0 reads puzzle[1][0] twice and
\* never puzzle[1][1]
square_slice_typo(puzzle, square) ==
    IF square = 0
    THEN Some(<<puzzle[0][0], puzzle[0][1], puzzle[0][2],
                puzzle[1][0], puzzle[1][0], puzzle[1][2],
                puzzle[2][0], puzzle[2][1], puzzle[2][2]>>)
    ELSE IF square \in 1..8
    THEN Some([i \in 1..9 |->
              puzzle[3 * (square \div 3) + ((i - 1) \div 3)]
                    [3 * (square % 3) + ((i - 1) % 3)]])
    ELSE None

square_slice(puzzle, square) ==
    CASE square = 0 -> Some(<<puzzle[0][0], puzzle[0][1], puzzle[0][2],
                               puzzle[1][0], puzzle[1][1], puzzle[1][2],
                               puzzle[2][0], puzzle[2][1], puzzle[2][2]>>)
      [] square = 1 -> Some(<<puzzle[0][3], puzzle[0][4], puzzle[0][5],
                               puzzle[1][3], puzzle[1][4], puzzle[1][5],
                               puzzle[2][3], puzzle[2][4], puzzle[2][5]>>)
      [] square = 2 -> Some(<<puzzle[0][6], puzzle[0][7], puzzle[0][8],
                               puzzle[1][6], puzzle[1][7], puzzle[1][8],
                               puzzle[2][6], puzzle[2][7], puzzle[2][8]>>)
      [] square = 3 -> Some(<<puzzle[3][0], puzzle[3][1], puzzle[3][2],
                               puzzle[4][0], puzzle[4][1], puzzle[4][2],
                               puzzle[5][0], puzzle[5][1], puzzle[5][2]>>)
      [] square = 4 -> Some(<<puzzle[3][3], puzzle[3][4], puzzle[3][5],
                               puzzle[4][3], puzzle[4][4], puzzle[4][5],
                               puzzle[5][3], puzzle[5][4], puzzle[5][5]>>)
      [] square = 5 -> Some(<<puzzle[3][6], puzzle[3][7], puzzle[3][8],
                               puzzle[4][6], puzzle[4][7], puzzle[4][8],
                               puzzle[5][6], puzzle[5][7], puzzle[5][8]>>)
      [] square = 6 -> Some(<<puzzle[6][0], puzzle[6][1], puzzle[6][2],
                               puzzle[7][0], puzzle[7][1], puzzle[7][2],
                               puzzle[8][0], puzzle[8][1], puzzle[8][2]>>)
      [] square = 7 -> Some(<<puzzle[6][3], puzzle[6][4], puzzle[6][5],
                               puzzle[7][3], puzzle[7][4], puzzle[7][5],
                               puzzle[8][3], puzzle[8][4], puzzle[8][5]>>)
      [] square = 8 -> Some(<<puzzle[6][6], puzzle[6][7], puzzle[6][8],
                               puzzle[7][6], puzzle[7][7], puzzle[7][8],
                               puzzle[8][6], puzzle[8][7], puzzle[8][8]>>)
      [] OTHER -> None

(***************************************************************************)
(* slice_has_unique_digits: one pass over the slice with the 9-slot array  *)
(* unique_digits, indexed by digit - 1.  A zero is skipped.  When the i-th *)
(* digit is looked at, its slot is set iff an earlier digit of the slice   *)
(* has the same value (only nonzero digits set a slot); the pass returns   *)
(* false at the first digit that finds its slot set, true when it runs off *)
(* the end.                                                                *)
(***************************************************************************)
\* (the digits of a slice are in 0..9)
slice_has_unique_digits(slice) ==
    \A i \in 1..9 :
        \/ slice[i] = 0
        \/ \A j \in 1..(i - 1) : slice[j] # slice[i]

(***************************************************************************)
(* is_valid_puzzle: (0..9).all(..) over the rows, columns and squares.     *)
(***************************************************************************)
is_valid_puzzle(puzzle) ==
    \A index \in 0..8 :
        LET h == horizontal_slice(puzzle, index)
            v == vertical_slice(puzzle, index)
            s == square_slice(puzzle, index)
        IN  /\ h # None
            /\ v # None
            /\ s # None
            /\ slice_has_unique_digits(Unwrap(h))
            /\ slice_has_unique_digits(Unwrap(v))
            /\ slice_has_unique_digits(Unwrap(s))

(***************************************************************************)
(* blanks: the positions holding 0, in row-major order.                    *)
(***************************************************************************)
blanks(puzzle) ==
    SelectSeq(AllPositions, LAMBDA pos : puzzle[pos[1]][pos[2]] = 0)

(***************************************************************************)
(* The three searches share one loop: for each digit, in the order of      *)
(* digits, write it to the first blank and `continue` when the grid is     *)
(* then invalid.  A skipped digit leaves nothing behind but the cell it    *)
(* wrote, which the next iteration overwrites, so the loop is modelled     *)
(* over passing_digits, the digits that pass the check, in order.          *)
(***************************************************************************)
passing_digits(puzzle, row, col, digits) ==
    SelectSeq(digits, LAMBDA digit : is_valid_puzzle(SetCell(puzzle, row, col, digit)))

(***************************************************************************)
(* find_solution: depth-first, the first solution found.                   *)
(***************************************************************************)
RECURSIVE find_solution(_, _, _)
RECURSIVE find_solution_loop(_, _, _, _)
find_solution(puzzle, blnks, digits) ==
    IF blnks = <<>> THEN Some(puzzle)
    ELSE find_solution_loop(puzzle, blnks, digits,
             passing_digits(puzzle, blnks[1][1], blnks[1][2], digits))

\* the for loop of find_solution, `passing` being the digits still to try
find_solution_loop(puzzle, blnks, digits, passing) ==
    IF passing = <<>> THEN None
    ELSE LET solution_ == find_solution(
                 SetCell(puzzle, blnks[1][1], blnks[1][2], passing[1]),
                 Tail(blnks), digits)
         IN  IF solution_ # None THEN solution_
             ELSE find_solution_loop(puzzle, blnks, digits, Tail(passing))

(***************************************************************************)
(* find_solutions: every solution, pushed to solutions in search order.    *)
(***************************************************************************)
RECURSIVE find_solutions(_, _, _, _)
RECURSIVE find_solutions_loop(_, _, _, _, _)
find_solutions(puzzle, blnks, digits, solutions) ==
    IF blnks = <<>> THEN Append(solutions, puzzle)
    ELSE find_solutions_loop(puzzle, blnks, digits,
             passing_digits(puzzle, blnks[1][1], blnks[1][2], digits), solutions)

find_solutions_loop(puzzle, blnks, digits, passing, solutions) ==
    IF passing = <<>> THEN solutions
    ELSE find_solutions_loop(puzzle, blnks, digits, Tail(passing),
             find_solutions(SetCell(puzzle, blnks[1][1], blnks[1][2], passing[1]),
                            Tail(blnks), digits, solutions))

(***************************************************************************)
(* count_solutions: the number of solutions in count_cache, every level    *)
(* returning as soon as the count exceeds 1.                               *)
(***************************************************************************)
RECURSIVE count_solutions(_, _, _, _)
RECURSIVE count_solutions_loop(_, _, _, _, _)
count_solutions(puzzle, blnks, digits, count_cache) ==
    IF blnks = <<>> THEN count_cache + 1
    ELSE count_solutions_loop(puzzle, blnks, digits,
             passing_digits(puzzle, blnks[1][1], blnks[1][2], digits), count_cache)

count_solutions_loop(puzzle, blnks, digits, passing, count_cache) ==
    IF passing = <<>> THEN count_cache
    ELSE LET counted == count_solutions(
                 SetCell(puzzle, blnks[1][1], blnks[1][2], passing[1]),
                 Tail(blnks), digits, count_cache)
         IN  IF counted > 1 THEN counted
             ELSE count_solutions_loop(puzzle, blnks, digits, Tail(passing), counted)

(***************************************************************************)
(* solve and solve_any.  ret is the value returned; searched records       *)
(* whether the call reached the search (find_solutions / find_solution),   *)
(* the only place where a cell is assigned.                                *)
(***************************************************************************)
\* solve searching with the digits in the order 9..1
solve_call_reversed(puzzle) ==
    IF ~is_valid_puzzle(puzzle) THEN [ret |-> <<>>, searched |-> FALSE]
    ELSE LET b == blanks(puzzle)
         IN  IF b = <<>> THEN [ret |-> <<puzzle>>, searched |-> FALSE]
             ELSE [ret |-> find_solutions(puzzle, b, <<9, 8, 7, 6, 5, 4, 3, 2, 1>>, <<>>),
                   searched |-> TRUE]

\* solve without the validity check
solve_call_unchecked(puzzle) ==
    LET b == blanks(puzzle)
    IN  IF b = <<>> THEN [ret |-> <<puzzle>>, searched |-> FALSE]
        ELSE [ret |-> find_solutions(puzzle, b, DIGITS_ARRAY, <<>>),
              searched |-> TRUE]

\* solve that stops at the first solution
solve_call_first_only(puzzle) ==
    IF ~is_valid_puzzle(puzzle) THEN [ret |-> <<>>, searched |-> FALSE]
    ELSE LET b == blanks(puzzle)
         IN  IF b = <<>> THEN [ret |-> <<puzzle>>, searched |-> FALSE]
             ELSE [ret |-> find_solution(puzzle, b, DIGITS_ARRAY),
                   searched |-> TRUE]

solve_call(puzzle) ==
    IF ~is_valid_puzzle(puzzle) THEN [ret |-> <<>>, searched |-> FALSE]
    ELSE LET b == blanks(puzzle)
         IN  IF b = <<>> THEN [ret |-> <<puzzle>>, searched |-> FALSE]
             ELSE [ret |-> find_solutions(puzzle, b, DIGITS_ARRAY, <<>>),
                   searched |-> TRUE]

solve(puzzle) == solve_call(puzzle).ret

\* solve_any trying the digits in the order 9..1
solve_any_call_reversed(puzzle) ==
    IF ~is_valid_puzzle(puzzle) THEN [ret |-> None, searched |-> FALSE]
    ELSE LET b == blanks(puzzle)
         IN  IF b = <<>> THEN [ret |-> Some(puzzle), searched |-> FALSE]
             ELSE [ret |-> find_solution(puzzle, b, <<9, 8, 7, 6, 5, 4, 3, 2, 1>>),
                   searched |-> TRUE]

solve_any_call(puzzle) ==
    IF ~is_valid_puzzle(puzzle) THEN [ret |-> None, searched |-> FALSE]
    ELSE LET b == blanks(puzzle)
         IN  IF b = <<>> THEN [ret |-> Some(puzzle), searched |-> FALSE]
             ELSE [ret |-> find_solution(puzzle, b, DIGITS_ARRAY),
                   searched |-> TRUE]

solve_any(puzzle) == solve_any_call(puzzle).ret

(***************************************************************************)
(* has_unique_solution: the count starts at 0 on every call.               *)
(***************************************************************************)
\* has_unique_solution accepting any count of at least 1
has_unique_solution_any(puzzle) ==
    IF ~is_valid_puzzle(puzzle) THEN FALSE
    ELSE LET b == blanks(puzzle)
         IN  IF b = <<>> THEN TRUE
             ELSE count_solutions(puzzle, b, DIGITS_ARRAY, 0) >= 1

has_unique_solution(puzzle) ==
    IF ~is_valid_puzzle(puzzle) THEN FALSE
    ELSE LET b == blanks(puzzle)
         IN  IF b = <<>> THEN TRUE
             ELSE count_solutions(puzzle, b, DIGITS_ARRAY, 0) = 1

(***************************************************************************)
(* count_solutions again, iteration by iteration, with a record of what    *)
(* the run did.  run.count_cache is the counter; run.values the values it  *)
(* has taken; run.checked_at the values it had whenever the loop assigned  *)
(* a digit to a cell and checked the grid.  (The counter is a u8; the      *)
(* model's does not wrap.)                                                 *)
(***************************************************************************)

\* the run with the loop returning on count_cache > 3 instead of > 1
RECURSIVE count_solutions_run_late_abort(_, _, _, _)
RECURSIVE count_solutions_run_late_abort_loop(_, _, _, _, _)
count_solutions_run_late_abort(puzzle, blnks, digits, run) ==
    IF blnks = <<>>
    THEN [run EXCEPT !.count_cache = @ + 1, !.values = @ \cup {run.count_cache + 1}]
    ELSE count_solutions_run_late_abort_loop(puzzle, blnks, digits, 1, run)

count_solutions_run_late_abort_loop(puzzle, blnks, digits, i, run) ==
    IF i > Len(digits) THEN run
    ELSE LET assigned == SetCell(puzzle, blnks[1][1], blnks[1][2], digits[i])
             checked == IF run.count_cache \in run.checked_at THEN run
                        ELSE [run EXCEPT !.checked_at = @ \cup {run.count_cache}]
         IN  IF ~is_valid_puzzle(assigned)
             THEN count_solutions_run_late_abort_loop(assigned, blnks, digits, i + 1, checked)
             ELSE LET counted == count_solutions_run_late_abort(
                                     assigned, Tail(blnks), digits, checked)
                  IN  IF counted.count_cache > 3 THEN counted
                      ELSE count_solutions_run_late_abort_loop(
                               assigned, blnks, digits, i + 1, counted)

RECURSIVE count_solutions_run(_, _, _, _)
RECURSIVE count_solutions_run_loop(_, _, _, _, _)
count_solutions_run(puzzle, blnks, digits, run) ==
    IF blnks = <<>>
    THEN [run EXCEPT !.count_cache = @ + 1, !.values = @ \cup {run.count_cache + 1}]
    ELSE count_solutions_run_loop(puzzle, blnks, digits, 1, run)

\* the for loop from its i-th digit on
count_solutions_run_loop(puzzle, blnks, digits, i, run) ==
    IF i > Len(digits) THEN run
    ELSE LET assigned == SetCell(puzzle, blnks[1][1], blnks[1][2], digits[i])
             checked == IF run.count_cache \in run.checked_at THEN run
                        ELSE [run EXCEPT !.checked_at = @ \cup {run.count_cache}]
         IN  IF ~is_valid_puzzle(assigned)
             THEN count_solutions_run_loop(assigned, blnks, digits, i + 1, checked)
             ELSE LET counted == count_solutions_run(assigned, Tail(blnks), digits, checked)
                  IN  IF counted.count_cache > 1 THEN counted
                      ELSE count_solutions_run_loop(assigned, blnks, digits, i + 1, counted)

\* has_unique_solution: let mut count_cache = 0; count_solutions(.., &mut count_cache)
has_unique_solution_run(puzzle) ==
    count_solutions_run(puzzle, blanks(puzzle), DIGITS_ARRAY,
        [count_cache |-> 0, values |-> {0}, checked_at |-> {}])

(***************************************************************************)
(* The random source.  fastrand::shuffle permutes a slice in place; the    *)
(* model explores the outcomes ShuffleOutcomes lists, one per run, each    *)
(* giving the permutation of the digits, of the 81 positions, of the rows  *)
(* and of the columns as <<a, b>>: element i of the outcome is element     *)
(* (a * i + b) mod n of the input, a coprime to n.                         *)
(***************************************************************************)
ShuffleOutcomes ==
    << [digits |-> <<4, 8>>, positions |-> <<53, 66>>, rows |-> <<7, 6>>, cols |-> <<4, 3>>],
       [digits |-> <<4, 6>>, positions |-> <<62, 2>>,  rows |-> <<8, 8>>, cols |-> <<2, 0>>],
       [digits |-> <<1, 7>>, positions |-> <<71, 61>>, rows |-> <<8, 8>>, cols |-> <<5, 2>>],
       [digits |-> <<1, 4>>, positions |-> <<70, 76>>, rows |-> <<4, 7>>, cols |-> <<5, 5>> ] >>

shuffle(seq, ab) ==
    [i \in 1..Len(seq) |-> seq[((ab[1] * (i - 1) + ab[2]) % Len(seq)) + 1]]

(***************************************************************************)
(* The generator's loop bodies.                                            *)
(***************************************************************************)

\* the range test without its upper end
count_accepted_any(count) == count >= 1

\* create_random_blank_positions: (1..=MAX_BLANKS_TO_GENERATE).contains(&count)
count_accepted(count) == count \in 1..MAX_BLANKS_TO_GENERATE

\* the iteration without the restore of orig_digit
carve_cell_no_restore(puzzle, row, col, blanks_created) ==
    LET blanked == SetCell(puzzle, row, col, 0)
    IN  IF has_unique_solution(blanked)
        THEN [puzzle |-> blanked, blanks_created |-> blanks_created + 1]
        ELSE [puzzle |-> blanked, blanks_created |-> blanks_created]

\* the iteration restoring orig_digit whether or not uniqueness held
carve_cell_always_restore(puzzle, row, col, blanks_created) ==
    LET blanked == SetCell(puzzle, row, col, 0)
    IN  IF has_unique_solution(blanked)
        THEN [puzzle |-> puzzle, blanks_created |-> blanks_created + 1]
        ELSE [puzzle |-> puzzle, blanks_created |-> blanks_created]

\* create_random_blank_positions, one iteration of the for loop
carve_cell(puzzle, row, col, blanks_created) ==
    LET orig_digit == puzzle[row][col]
        blanked == SetCell(puzzle, row, col, 0)
    IN  IF has_unique_solution(blanked)
        THEN [puzzle |-> blanked, blanks_created |-> blanks_created + 1]
        ELSE [puzzle |-> SetCell(blanked, row, col, orig_digit),
              blanks_created |-> blanks_created]

\* the break test off by one
carve_done_early(blanks_created, count) == blanks_created = count - 1

\* create_random_blank_positions: the loop's break test
carve_done(blanks_created, count) == blanks_created = count

\* the row blanked from its second cell on
blank_row_from_second(puzzle, row) ==
    [puzzle EXCEPT ![row] = [col \in 0..8 |-> IF col = 0 THEN puzzle[row][0] ELSE 0]]

\* create_random_blank_row: for col in 0..9 { puzzle[row][col] = 0; }
blank_row(puzzle, row) ==
    [puzzle EXCEPT ![row] = [col \in 0..8 |-> 0]]

\* create_random_blank_col: for row in puzzle.iter_mut() { row[col] = 0; }
blank_col(puzzle, col) ==
    [row \in 0..8 |-> [puzzle[row] EXCEPT ![col] = 0]]

\* the iteration without the uniqueness check
try_blank_row_unchecked(puzzle, row) == Some(blank_row(puzzle, row))

\* create_random_blank_row, one iteration: Some(puzzle) when the blanked
\* copy keeps a unique solution, None to go on to the next row
try_blank_row(puzzle, row) ==
    LET blanked == blank_row(puzzle, row)
    IN  IF has_unique_solution(blanked) THEN Some(blanked) ELSE None

\* create_random_blank_col, one iteration
try_blank_col(puzzle, col) ==
    LET blanked == blank_col(puzzle, col)
    IN  IF has_unique_solution(blanked) THEN Some(blanked) ELSE None

(***************************************************************************)
(* State.                                                                  *)
(***************************************************************************)
VARIABLES
    pc,              \* where generate() stands
    rng,             \* the outcome of the random source, an index of ShuffleOutcomes
    solution,        \* generate: solution (SolveSpec: the base solved grid)
    puzzle,          \* the working puzzle
    count,           \* create_random_blank_positions: count
    positions,       \* create_random_blank_positions: the positions still to visit
    blanks_created,  \* create_random_blank_positions: blanks_created
    units,           \* create_random_blank_row / _col: the rows (cols) still to try
    ret,             \* the value the last generator function returned
    depth,           \* create_random_solution: how many calls of find_solution are open
    grid,            \* SolveSpec: the caller's grid
    op,              \* SolveSpec: the operation last applied to grid, or "idle"
    arg,             \* SolveSpec: the index a slice accessor was called with
    out,             \* SolveSpec, ReadSpec: what the operation returned
    text             \* ReadSpec: the lines of the input text

gen_vars == <<pc, rng, solution, puzzle, count, positions, blanks_created, units, ret, depth>>

solve_vars == <<grid, op, arg, out>>

io_vars == <<text>>

vars == <<pc, rng, solution, puzzle, count, positions, blanks_created, units, ret,
          depth, grid, op, arg, out, text>>

(***************************************************************************)
(* Spec: generate().                                                       *)
(***************************************************************************)
Init ==
    /\ pc = "create_random_solution"
    /\ rng \in 1..NumRuns
    /\ solution = EmptyGrid
    /\ puzzle = EmptyGrid
    /\ count = TARGET_BLANKS_TO_GENERATE
    /\ positions = <<>>
    /\ blanks_created = 0
    /\ units = <<>>
    /\ ret = None
    /\ depth = 0
    /\ grid = EmptyGrid
    /\ op = "idle"
    /\ arg = 0
    /\ out = None
    /\ text = <<>>

\* the digits as create_random_solution has shuffled them in this run
shuffled_digits == shuffle(DIGITS_ARRAY, ShuffleOutcomes[rng].digits)

\* the loop starting over from the first digit whatever it has written
digits_after_restart(digits, digit) == digits

\* the digits the loop of find_solution has still to try once it has written
\* digit (0: none yet) to its blank
digits_after(digits, digit) ==
    IF digit = 0 THEN digits
    ELSE SubSeq(digits, (CHOOSE i \in 1..Len(digits) : digits[i] = digit) + 1, Len(digits))

\* create_random_solution calls find_solution on the empty puzzle and all 81
\* positions (again, in its loop, after a search that found nothing)
CreateRandomSolution ==
    /\ pc = "create_random_solution"
    /\ puzzle' = EmptyGrid
    /\ depth' = 0
    /\ pc' = "find_solution"
    /\ UNCHANGED <<rng, solution, count, positions, blanks_created, units, ret>>
    /\ UNCHANGED solve_vars
    /\ UNCHANGED io_vars

\* The search of create_random_solution, one call or return of find_solution
\* per step.  The open calls are those of the first depth positions; the
\* call of position k holds the puzzle with the first k cells written, so
\* puzzle and depth are the whole call stack, and the digit in the cell of
\* the innermost call's blank tells where its loop stands.
\*   - the loop of the innermost call finds its next digit that passes the
\*     check and calls find_solution on the rest (depth + 1);
\*   - or it runs out of digits and returns None to its caller (depth - 1),
\*     whose loop goes on from the digit it had written; the outermost call
\*     returns None to create_random_solution.
FindSolutionStep ==
    /\ pc = "find_solution"
    /\ depth < Len(AllPositions)
    /\ LET row == AllPositions[depth + 1][1]
           col == AllPositions[depth + 1][2]
           passing == passing_digits(puzzle, row, col,
                          digits_after(shuffled_digits, puzzle[row][col]))
       IN  IF passing # <<>>
           THEN /\ puzzle' = SetCell(puzzle, row, col, passing[1])
                /\ depth' = depth + 1
                /\ UNCHANGED pc
           ELSE IF depth > 0
           THEN /\ puzzle' = SetCell(puzzle, row, col, 0)
                /\ depth' = depth - 1
                /\ UNCHANGED pc
           ELSE /\ pc' = "create_random_solution"
                /\ UNCHANGED <<puzzle, depth>>
    /\ UNCHANGED <<rng, solution, count, positions, blanks_created, units, ret>>
    /\ UNCHANGED solve_vars
    /\ UNCHANGED io_vars

\* blanks is empty: Some(puzzle), which every open call returns in turn
FindSolutionReturn ==
    /\ pc = "find_solution"
    /\ depth = Len(AllPositions)
    /\ solution' = puzzle
    /\ depth' = 0
    /\ pc' = "create_random_blank_positions"
    /\ UNCHANGED <<rng, puzzle, count, positions, blanks_created, units, ret>>
    /\ UNCHANGED solve_vars
    /\ UNCHANGED io_vars

\* create_random_blank_positions(solution, count), up to the loop
CarveEnter ==
    /\ pc = "create_random_blank_positions"
    /\ IF ~count_accepted(count)
       THEN /\ ret' = None
            /\ pc' = "positions_returned"
            /\ UNCHANGED <<positions, puzzle, blanks_created>>
       ELSE /\ positions' = shuffle(AllPositions, ShuffleOutcomes[rng].positions)
            /\ puzzle' = solution
            /\ blanks_created' = 0
            /\ pc' = "carve"
            /\ UNCHANGED ret
    /\ UNCHANGED <<rng, solution, count, units, depth>>
    /\ UNCHANGED solve_vars
    /\ UNCHANGED io_vars

\* one iteration of the loop over positions
CarveCell ==
    /\ pc = "carve"
    /\ positions # <<>>
    /\ ~carve_done(blanks_created, count)
    /\ LET row == positions[1][1]
           col == positions[1][2]
           after == carve_cell(puzzle, row, col, blanks_created)
       IN  /\ puzzle' = after.puzzle
           /\ blanks_created' = after.blanks_created
    /\ positions' = Tail(positions)
    /\ UNCHANGED <<pc, rng, solution, count, units, ret, depth>>
    /\ UNCHANGED solve_vars
    /\ UNCHANGED io_vars

\* the loop ends (break, or positions exhausted): Some(puzzle)
CarveReturn ==
    /\ pc = "carve"
    /\ (positions = <<>> \/ carve_done(blanks_created, count))
    /\ ret' = Some(puzzle)
    /\ pc' = "positions_returned"
    /\ UNCHANGED <<rng, solution, puzzle, count, positions, blanks_created, units, depth>>
    /\ UNCHANGED solve_vars
    /\ UNCHANGED io_vars

\* generate: let puzzle = create_random_blank_positions(..).unwrap_or(solution);
\* then create_random_blank_row(puzzle), up to its loop
RowEnter ==
    /\ pc = "positions_returned"
    /\ puzzle' = UnwrapOr(ret, solution)
    /\ units' = shuffle(INDICES_ARRAY, ShuffleOutcomes[rng].rows)
    /\ pc' = "row"
    /\ UNCHANGED <<rng, solution, count, positions, blanks_created, ret, depth>>
    /\ UNCHANGED solve_vars
    /\ UNCHANGED io_vars

\* one iteration of the loop over rows
RowTry ==
    /\ pc = "row"
    /\ units # <<>>
    /\ LET tried == try_blank_row(puzzle, units[1])
       IN  IF IsSome(tried)
           THEN /\ ret' = tried
                /\ pc' = "row_returned"
                /\ UNCHANGED units
           ELSE /\ units' = Tail(units)
                /\ UNCHANGED <<ret, pc>>
    /\ UNCHANGED <<rng, solution, puzzle, count, positions, blanks_created, depth>>
    /\ UNCHANGED solve_vars
    /\ UNCHANGED io_vars

\* every row failed: None
RowNone ==
    /\ pc = "row"
    /\ units = <<>>
    /\ ret' = None
    /\ pc' = "row_returned"
    /\ UNCHANGED <<rng, solution, puzzle, count, positions, blanks_created, units, depth>>
    /\ UNCHANGED solve_vars
    /\ UNCHANGED io_vars

\* generate: let puzzle = create_random_blank_row(puzzle).unwrap_or(puzzle);
\* then create_random_blank_col(puzzle), up to its loop
ColEnter ==
    /\ pc = "row_returned"
    /\ puzzle' = UnwrapOr(ret, puzzle)
    /\ units' = shuffle(INDICES_ARRAY, ShuffleOutcomes[rng].cols)
    /\ pc' = "col"
    /\ UNCHANGED <<rng, solution, count, positions, blanks_created, ret, depth>>
    /\ UNCHANGED solve_vars
    /\ UNCHANGED io_vars

\* one iteration of the loop over cols
ColTry ==
    /\ pc = "col"
    /\ units # <<>>
    /\ LET tried == try_blank_col(puzzle, units[1])
       IN  IF IsSome(tried)
           THEN /\ ret' = tried
                /\ pc' = "col_returned"
                /\ UNCHANGED units
           ELSE /\ units' = Tail(units)
                /\ UNCHANGED <<ret, pc>>
    /\ UNCHANGED <<rng, solution, puzzle, count, positions, blanks_created, depth>>
    /\ UNCHANGED solve_vars
    /\ UNCHANGED io_vars

\* every col failed: None
ColNone ==
    /\ pc = "col"
    /\ units = <<>>
    /\ ret' = None
    /\ pc' = "col_returned"
    /\ UNCHANGED <<rng, solution, puzzle, count, positions, blanks_created, units, depth>>
    /\ UNCHANGED solve_vars
    /\ UNCHANGED io_vars

\* generate returns create_random_blank_col(puzzle).unwrap_or(puzzle)
GenerateReturn ==
    /\ pc = "col_returned"
    /\ puzzle' = UnwrapOr(ret, puzzle)
    /\ pc' = "done"
    /\ UNCHANGED <<rng, solution, count, positions, blanks_created, units, ret, depth>>
    /\ UNCHANGED solve_vars
    /\ UNCHANGED io_vars

Next ==
    \/ CreateRandomSolution
    \/ FindSolutionStep
    \/ FindSolutionReturn
    \/ CarveEnter
    \/ CarveCell
    \/ CarveReturn
    \/ RowEnter
    \/ RowTry
    \/ RowNone
    \/ ColEnter
    \/ ColTry
    \/ ColNone
    \/ GenerateReturn

Spec == Init /\ [][Next]_vars

(***************************************************************************)
(* SolveSpec: a caller of the library.  It starts from a solved grid,      *)
(* rewrites the cells of EditCells one at a time (blank, the solved digit, *)
(* or a digit of EditDigits, at most MaxPuts cells holding a digit other   *)
(* than the solved one) and applies one operation at a time to the grid    *)
(* it has built.                                                           *)
(***************************************************************************)

\* the caller's solved grid
SolvedRows ==
    << <<1, 2, 3, 4, 5, 6, 7, 8, 9>>,
       <<4, 5, 6, 7, 8, 9, 1, 2, 3>>,
       <<7, 8, 9, 1, 2, 3, 4, 5, 6>>,
       <<2, 1, 4, 3, 6, 5, 8, 9, 7>>,
       <<3, 6, 5, 8, 9, 7, 2, 1, 4>>,
       <<8, 9, 7, 2, 1, 4, 3, 6, 5>>,
       <<5, 3, 1, 6, 4, 2, 9, 7, 8>>,
       <<6, 4, 2, 9, 7, 8, 5, 3, 1>>,
       <<9, 7, 8, 5, 3, 1, 6, 4, 2>> >>

SolvedGrid == [row \in 0..8 |-> [col \in 0..8 |-> SolvedRows[row + 1][col + 1]]]

\* the cells the caller rewrites: two rows and two columns of one stack of
\* boxes, and two cells of row 1 in different boxes
EditCells == << <<0, 0>>, <<0, 1>>, <<3, 0>>, <<3, 1>>, <<1, 1>>, <<1, 6>> >>

\* the digits the caller writes besides 0 and the base digit
EditDigits == {1, 2}

\* how many edited cells differ from the base solution and are not blank
Puts(g) ==
    Cardinality({i \in 1..Len(EditCells) :
        LET row == EditCells[i][1]
            col == EditCells[i][2]
        IN  g[row][col] # 0 /\ g[row][col] # solution[row][col]})

SolveInit ==
    /\ pc = "idle"
    /\ rng = 1
    /\ solution = SolvedGrid
    /\ puzzle = EmptyGrid
    /\ count = TARGET_BLANKS_TO_GENERATE
    /\ positions = <<>>
    /\ blanks_created = 0
    /\ units = <<>>
    /\ ret = None
    /\ depth = 0
    /\ grid = SolvedGrid
    /\ op = "idle"
    /\ arg = 0
    /\ out = None
    /\ text = <<>>

\* the caller writes one cell of its grid
Edit ==
    /\ op = "idle"
    /\ \E i \in 1..Len(EditCells) :
           LET row == EditCells[i][1]
               col == EditCells[i][2]
           IN  \E digit \in {0, solution[row][col]} \cup EditDigits :
                   /\ digit # grid[row][col]
                   /\ Puts(SetCell(grid, row, col, digit)) <= MaxPuts
                   /\ grid' = SetCell(grid, row, col, digit)
    /\ UNCHANGED <<op, arg, out>>
    /\ UNCHANGED gen_vars
    /\ UNCHANGED io_vars

CallSolve ==
    /\ op = "idle"
    /\ op' = "solve"
    /\ out' = solve_call(grid)
    /\ UNCHANGED <<grid, arg>>
    /\ UNCHANGED gen_vars
    /\ UNCHANGED io_vars

CallSolveAny ==
    /\ op = "idle"
    /\ op' = "solve_any"
    /\ out' = solve_any_call(grid)
    /\ UNCHANGED <<grid, arg>>
    /\ UNCHANGED gen_vars
    /\ UNCHANGED io_vars

CallHasUniqueSolution ==
    /\ op = "idle"
    /\ op' = "has_unique_solution"
    /\ out' = has_unique_solution(grid)
    /\ UNCHANGED <<grid, arg>>
    /\ UNCHANGED gen_vars
    /\ UNCHANGED io_vars

\* the counting run has_unique_solution makes on a valid grid with blanks
CallCountSolutions ==
    /\ op = "idle"
    /\ IF ~is_valid_puzzle(grid) THEN FALSE ELSE blanks(grid) # <<>>
    /\ op' = "count_solutions"
    /\ out' = has_unique_solution_run(grid)
    /\ UNCHANGED <<grid, arg>>
    /\ UNCHANGED gen_vars
    /\ UNCHANGED io_vars

CallIsValidPuzzle ==
    /\ op = "idle"
    /\ op' = "is_valid_puzzle"
    /\ out' = is_valid_puzzle(grid)
    /\ UNCHANGED <<grid, arg>>
    /\ UNCHANGED gen_vars
    /\ UNCHANGED io_vars

CallHorizontalSlice ==
    /\ op = "idle"
    /\ \E row \in 0..MaxIndex :
           /\ arg' = row
           /\ out' = horizontal_slice(grid, row)
    /\ op' = "horizontal_slice"
    /\ UNCHANGED grid
    /\ UNCHANGED gen_vars
    /\ UNCHANGED io_vars

CallVerticalSlice ==
    /\ op = "idle"
    /\ \E col \in 0..MaxIndex :
           /\ arg' = col
           /\ out' = vertical_slice(grid, col)
    /\ op' = "vertical_slice"
    /\ UNCHANGED grid
    /\ UNCHANGED gen_vars
    /\ UNCHANGED io_vars

CallSquareSlice ==
    /\ op = "idle"
    /\ \E square \in 0..MaxIndex :
           /\ arg' = square
           /\ out' = square_slice(grid, square)
    /\ op' = "square_slice"
    /\ UNCHANGED grid
    /\ UNCHANGED gen_vars
    /\ UNCHANGED io_vars

\* the caller is done with the result
Return ==
    /\ op # "idle"
    /\ op' = "idle"
    /\ arg' = 0
    /\ out' = None
    /\ UNCHANGED grid
    /\ UNCHANGED gen_vars
    /\ UNCHANGED io_vars

SolveNext ==
    \/ Edit
    \/ CallSolve
    \/ CallSolveAny
    \/ CallHasUniqueSolution
    \/ CallCountSolutions
    \/ CallIsValidPuzzle
    \/ CallHorizontalSlice
    \/ CallVerticalSlice
    \/ CallSquareSlice
    \/ Return

SolveSpec == SolveInit /\ [][SolveNext]_vars

(***************************************************************************)
(* SeedSpec: create_random_solution alone.  The function runs in one       *)
(* thread from call to return, so a step that can be taken is taken.       *)
(***************************************************************************)
SeedNext ==
    \/ CreateRandomSolution
    \/ FindSolutionStep
    \/ FindSolutionReturn

SeedSpec == Init /\ [][SeedNext]_vars /\ WF_vars(SeedNext)

(***************************************************************************)
(* CarveSpec: create_random_blank_positions(solution, count) called on the *)
(* solved grid with a count of CarveCounts.                                *)
(***************************************************************************)
CarveCounts ==
    (0..MaxCarve) \cup
    ((MAX_BLANKS_TO_GENERATE + 1)..(MAX_BLANKS_TO_GENERATE + MaxOver))

CarveInit ==
    /\ pc = "create_random_blank_positions"
    /\ rng \in 1..NumRuns
    /\ solution = SolvedGrid
    /\ puzzle = EmptyGrid
    /\ count \in CarveCounts
    /\ positions = <<>>
    /\ blanks_created = 0
    /\ units = <<>>
    /\ ret = None
    /\ depth = 0
    /\ grid = EmptyGrid
    /\ op = "idle"
    /\ arg = 0
    /\ out = None
    /\ text = <<>>

CarveNext ==
    \/ CarveEnter
    \/ CarveCell
    \/ CarveReturn

CarveSpec == CarveInit /\ [][CarveNext]_vars

(***************************************************************************)
(* read_to_grid (src/src/io.rs).  The input is the sequence of the lines   *)
(* of the buffer, a line the sequence of its chars, a char a one-character *)
(* string.  The result is Ok(grid), Err(message), or the panic of an array *)
(* index out of bounds.                                                    *)
(***************************************************************************)
Ok(value) == [kind |-> "Ok", grid |-> value]

Err(message) == [kind |-> "Err", message |-> message]

Panic == [kind |-> "Panic"]

\* c.is_ascii_digit() && let Some(digit) = c.to_digit(10): the digit a char
\* stands for, 0 for '0' and for every char that is no digit
to_digit(c) ==
    LET digit_chars == <<"1", "2", "3", "4", "5", "6", "7", "8", "9">>
    IN  IF \E i \in 1..9 : digit_chars[i] = c
        THEN CHOOSE i \in 1..9 : digit_chars[i] = c
        ELSE 0

\* the elements of seq whose 0-based index is none of 0, 4, 8, 12
drop_border(seq) ==
    LET kept == {i \in 1..Len(seq) : (i - 1) \notin {0, 4, 8, 12}}
        nth(k) == CHOOSE i \in kept : Cardinality({j \in kept : j < i}) = k - 1
    IN  [k \in 1..Cardinality(kept) |-> seq[nth(k)]]

\* extract_digits
extract_digits(line) == drop_border(line)

\* the loops over lines and chars: grid[row][col] = digit for every char
\* that is a digit 1-9; the index is checked, so a row or col of 9 or more
\* panics
fill_grid(lines) ==
    LET chars == UNION {{<<row, col>> : col \in 1..Len(lines[row])} :
                           row \in 1..Len(lines)}
        writes == {w \in chars : to_digit(lines[w[1]][w[2]]) # 0}
    IN  IF \E w \in writes : w[1] > 9 \/ w[2] > 9 THEN Panic
        ELSE Ok([row \in 0..8 |-> [col \in 0..8 |->
                    IF <<row + 1, col + 1>> \in writes
                    THEN to_digit(lines[row + 1][col + 1]) ELSE 0]])

read_to_grid(buffer) ==
    LET lines == SelectSeq(buffer, LAMBDA line : line # <<>>)
    IN  IF Len(lines) # 9 /\ Len(lines) # 13
        THEN Err("Invalid input: incorrect number of rows.")
        ELSE IF Len(lines) = 13
        THEN IF ~(\A i \in 1..13 : Len(lines[i]) = 13)
             THEN Err("Invalid input: incorrect row len.")
             ELSE fill_grid([k \in 1..9 |-> extract_digits(drop_border(lines)[k])])
        ELSE fill_grid(lines)

(***************************************************************************)
(* ReadSpec: a caller builds an input text, a first line of FirstLines and *)
(* then copies of one line of FillLines, and reads it.                     *)
(***************************************************************************)
Line9 == <<"5", "3", ".", ".", "7", ".", ".", ".", ".">>

Line13 == <<"|", "5", "3", " ", "|", " ", "7", " ", "|", " ", " ", " ", "|">>

FirstLines ==
    { Line9,
      Line13,
      <<>>,
      SubSeq(Line9, 1, 8),
      Append(Line9, "."),
      Append(Line9, "1"),
      Append(Line13, "9"),
      Line13 \o <<".", "1">>,
      SubSeq(Line13, 1, 12) }

FillLines == {Line9, Line13, <<>>}

ReadInit ==
    /\ pc = "idle"
    /\ rng = 1
    /\ solution = EmptyGrid
    /\ puzzle = EmptyGrid
    /\ count = TARGET_BLANKS_TO_GENERATE
    /\ positions = <<>>
    /\ blanks_created = 0
    /\ units = <<>>
    /\ ret = None
    /\ depth = 0
    /\ grid = EmptyGrid
    /\ op = "idle"
    /\ arg = 0
    /\ out = None
    /\ text = <<>>

\* the caller writes one more line
AddLine ==
    /\ op = "idle"
    /\ Len(text) < MaxLines
    /\ \E line \in (IF text = <<>> THEN FirstLines
                    ELSE IF Len(text) = 1 THEN FillLines ELSE {text[2]}) :
           text' = Append(text, line)
    /\ UNCHANGED solve_vars
    /\ UNCHANGED gen_vars

CallReadToGrid ==
    /\ op = "idle"
    /\ op' = "read_to_grid"
    /\ out' = read_to_grid(text)
    /\ UNCHANGED <<grid, arg, text>>
    /\ UNCHANGED gen_vars

ReadNext ==
    \/ AddLine
    \/ CallReadToGrid
    \/ Return

ReadSpec == ReadInit /\ [][ReadNext]_vars

(***************************************************************************)
(* What the properties are stated with: Sudoku's rules, written without    *)
(* the program's accessors and searches.                                   *)
(***************************************************************************)
Cells == {<<row, col>> : row \in 0..8, col \in 0..8}

At(g, cell) == g[cell[1]][cell[2]]

RowUnit(r) == {<<r, col>> : col \in 0..8}

ColUnit(c) == {<<row, c>> : row \in 0..8}

\* box b: rows 3*(b/3)..+3, cols 3*(b%3)..+3
BoxUnit(b) == {<<3 * (b \div 3) + i, 3 * (b % 3) + j>> : i \in 0..2, j \in 0..2}

Units ==
    {RowUnit(i) : i \in 0..8} \cup {ColUnit(i) : i \in 0..8} \cup {BoxUnit(i) : i \in 0..8}

\* the nonzero digits of the unit are pairwise distinct
NoRepeat(g, unit) ==
    \A p \in unit : At(g, p) = 0 \/ \A q \in unit \ {p} : At(g, q) # At(g, p)

ValidGrid(g) == \A unit \in Units : NoRepeat(g, unit)

BlankCells(g) == {cell \in Cells : At(g, cell) = 0}

BlankCount(g) == Cardinality(BlankCells(g))

\* h keeps every given (nonzero) cell of g
Agrees(g, h) == \A cell \in Cells : At(g, cell) = 0 \/ At(h, cell) = At(g, cell)

\* the digits no given of g in the cell's row, column or box rules out
Candidates(g, cell) ==
    (1..9) \ {At(g, q) : q \in UNION {unit \in Units : cell \in unit}}

\* every way of filling the cells of todo in h, each with one of its
\* candidates in g
RECURSIVE Fills(_, _, _)
Fills(g, h, todo) ==
    IF todo = {} THEN {h}
    ELSE LET cell == CHOOSE c \in todo : TRUE
         IN  UNION {Fills(g, SetCell(h, cell[1], cell[2], d), todo \ {cell}) :
                        d \in Candidates(g, cell)}

\* the complete valid grids that agree with g on its givens (a completion
\* gives each blank one of its candidates, so the filter loses none)
Completions(g) == {h \in Fills(g, g, BlankCells(g)) : ValidGrid(h)}

\* the set of elements of a sequence
Range(seq) == {seq[i] : i \in 1..Len(seq)}

\* rows, columns and boxes in which g repeats a nonzero digit
RowConflict(g) == \E i \in 0..8 : ~NoRepeat(g, RowUnit(i))

ColConflict(g) == \E i \in 0..8 : ~NoRepeat(g, ColUnit(i))

BoxConflict(g) == \E i \in 0..8 : ~NoRepeat(g, BoxUnit(i))

(***************************************************************************)
(* C1: the grid generate() returns has exactly one solution:               *)
(* has_unique_solution of it is true and solve of it has length 1.         *)
(***************************************************************************)
C1_GenerateUnique ==
    pc = "done" => has_unique_solution(puzzle) /\ Len(solve(puzzle)) = 1

\* generate() has returned a puzzle whose row or column carve added blanks
C1_Witness ==
    /\ pc = "done"
    /\ BlankCount(puzzle) > TARGET_BLANKS_TO_GENERATE

(***************************************************************************)
(* C2: solve(G) returns exactly the complete valid grids that agree with G *)
(* on its givens: each returned grid is valid, has no zero and keeps G's   *)
(* givens; every such completion is returned; none is returned twice.      *)
(***************************************************************************)
C2_SolveExact ==
    op = "solve" =>
        /\ \A i \in 1..Len(out.ret) :
               /\ ValidGrid(out.ret[i])
               /\ BlankCells(out.ret[i]) = {}
               /\ Agrees(grid, out.ret[i])
        /\ Range(out.ret) = Completions(grid)
        /\ Len(out.ret) = Cardinality(Range(out.ret))

\* solve has returned two solutions of a grid with blanks
C2_Witness ==
    /\ op = "solve"
    /\ Len(out.ret) = 2
    /\ BlankCount(grid) >= 4

(***************************************************************************)
(* C3: solve_any(G) is absent iff solve(G) is empty, and otherwise it is   *)
(* the first element of solve(G).                                          *)
(***************************************************************************)
C3_SolveAnyFirst ==
    op = "solve_any" =>
        /\ (out.ret = None) <=> (solve(grid) = <<>>)
        /\ out.ret # None => Unwrap(out.ret) = solve(grid)[1]

\* solve_any has returned a solution of a grid that has several
C3_Witness ==
    /\ op = "solve_any"
    /\ out.ret # None
    /\ Len(solve(grid)) >= 2

(***************************************************************************)
(* C4: on a grid that repeats a nonzero digit in a row, column or box,     *)
(* solve returns the empty sequence and solve_any returns absent, and      *)
(* neither reaches the search (no cell is assigned).                       *)
(***************************************************************************)
C4_InvalidNoSearch ==
    (op \in {"solve", "solve_any"} /\ ~ValidGrid(grid)) =>
        /\ out.ret = <<>>
        /\ ~out.searched

\* solve was applied to an invalid grid that has blanks to search
C4_Witness ==
    /\ op = "solve"
    /\ ~ValidGrid(grid)
    /\ BlankCount(grid) >= 1
    /\ out.ret = <<>>

(***************************************************************************)
(* C5: the grid generate() returns has at least 35 blanks.                 *)
(***************************************************************************)
C5_GenerateBlanks ==
    pc = "done" => BlankCount(puzzle) >= 35

\* generate() has returned a puzzle with 35 blanks or more after a column
\* step that yielded absent
C5_Witness ==
    /\ pc = "done"
    /\ ret = None
    /\ BlankCount(puzzle) >= 35

(***************************************************************************)
(* C6: is_valid_puzzle(G) is true iff in each row, each column and each    *)
(* box (box b = rows 3*(b/3)..+3, cols 3*(b%3)..+3) the nonzero digits are *)
(* pairwise distinct; zeros never conflict.                                *)
(***************************************************************************)
C6_ValidIffNoRepeat ==
    op = "is_valid_puzzle" => (out <=> ValidGrid(grid))

\* the check has rejected a grid with blanks whose only repeat is in a box
C6_Witness ==
    /\ op = "is_valid_puzzle"
    /\ out = FALSE
    /\ BoxConflict(grid)
    /\ ~RowConflict(grid)
    /\ ~ColConflict(grid)
    /\ BlankCount(grid) >= 2

(***************************************************************************)
(* C7: a row, column or box accessor called with an index outside 0..8     *)
(* fails: it yields no view (None), never the view of another index.       *)
(***************************************************************************)
C7_SliceOutOfRange ==
    (op \in {"horizontal_slice", "vertical_slice", "square_slice"} /\ arg \notin 0..8) =>
        out = None

\* the row accessor was called with index 9
C7_Witness ==
    /\ op = "horizontal_slice"
    /\ arg = 9
    /\ out = None

(***************************************************************************)
(* C8: has_unique_solution(G) is true iff solve(G) has length 1, i.e. iff  *)
(* G is valid and has exactly one valid completion.                        *)
(***************************************************************************)
C8_UniqueIffOne ==
    op = "has_unique_solution" =>
        /\ out <=> (Len(solve(grid)) = 1)
        /\ out <=> (ValidGrid(grid) /\ Cardinality(Completions(grid)) = 1)

\* it has returned false for a valid grid with two or more completions
C8_Witness ==
    /\ op = "has_unique_solution"
    /\ out = FALSE
    /\ ValidGrid(grid)
    /\ Cardinality(Completions(grid)) >= 2

\* it has returned false for a valid grid with no completion
C8_ReachedUnsolvable ==
    /\ op = "has_unique_solution"
    /\ out = FALSE
    /\ ValidGrid(grid)
    /\ Completions(grid) = {}

(***************************************************************************)
(* C9: in the carving loop over a solved grid S, after every iteration the *)
(* working grid has exactly one solution, S; every nonzero cell is S's;    *)
(* the blanks are the blanks_created ones and never exceed count; and an   *)
(* iteration leaves its cell blank iff has_unique_solution held of the     *)
(* blanked grid, the grid being as before the iteration otherwise.         *)
(***************************************************************************)
C9_CarveState ==
    pc = "carve" =>
        /\ solve(puzzle) = <<solution>>
        /\ Agrees(puzzle, solution)
        /\ BlankCount(puzzle) = blanks_created
        /\ blanks_created <= count

C9_CarveStep ==
    (pc = "carve" /\ pc' = "carve" /\ positions' # positions) =>
        LET blanked == SetCell(puzzle, positions[1][1], positions[1][2], 0)
        IN  IF has_unique_solution(blanked)
            THEN puzzle' = blanked /\ blanks_created' = blanks_created + 1
            ELSE puzzle' = puzzle /\ blanks_created' = blanks_created

C9_Carving == [](C9_CarveState) /\ [][C9_CarveStep]_vars

\* the loop has kept some blanks and restored some cells
C9_Witness ==
    /\ pc = "carve"
    /\ blanks_created > 0
    /\ 81 - Len(positions) > blanks_created
    /\ BlankCount(puzzle) = blanks_created

(***************************************************************************)
(* C10: create_random_blank_positions(solution, 35) returns a puzzle (not  *)
(* absent) with exactly 35 blanks: the count is reached before the         *)
(* positions are exhausted.                                                *)
(***************************************************************************)
C10_CarveReachesTarget ==
    pc = "positions_returned" =>
        /\ ret # None
        /\ BlankCount(Unwrap(ret)) = 35
        /\ blanks_created = count

\* it has returned after visiting more positions than it blanked
C10_Witness ==
    /\ pc = "positions_returned"
    /\ ret # None
    /\ BlankCount(Unwrap(ret)) = 35
    /\ 81 - Len(positions) > 35

(***************************************************************************)
(* C11: in a run of count_solutions started with the counter at 0 the      *)
(* counter only takes the values 0, 1 and 2, and no cell is assigned and   *)
(* no grid checked once it has reached 2; every call of                    *)
(* has_unique_solution counts from 0, so the run ends with the number of   *)
(* completions of the grid, capped at 2, and has_unique_solution is true   *)
(* iff it ends with 1.                                                     *)
(***************************************************************************)
C11_CountSaturates ==
    op = "count_solutions" =>
        /\ out.values \subseteq {0, 1, 2}
        /\ out.checked_at \subseteq {0, 1}
        /\ 0 \in out.values
        /\ out.count_cache =
               (IF Cardinality(Completions(grid)) >= 2 THEN 2
                ELSE Cardinality(Completions(grid)))
        /\ out.count_cache = count_solutions(grid, blanks(grid), DIGITS_ARRAY, 0)
        /\ has_unique_solution(grid) <=> (out.count_cache = 1)

\* a run has counted two solutions of a grid, assigning cells at 0 and at 1
C11_Witness ==
    /\ op = "count_solutions"
    /\ out.count_cache = 2
    /\ out.checked_at = {0, 1}
    /\ Cardinality(Completions(grid)) >= 2

(***************************************************************************)
(* C12: the sequence solve(G) returns is strictly increasing in the        *)
(* lexicographic order of the digits given to G's blanks, the blanks taken *)
(* in row-major order and the digits in the order 1..9.                    *)
(***************************************************************************)

\* the cell of g at row-major index k (0..80)
CellAt(g, k) == g[k \div 9][k % 9]

\* h1 comes before h2: at the first blank of g, in row-major order, where
\* they differ, h1 has the smaller digit
LexLess(g, h1, h2) ==
    \E k \in 0..80 :
        /\ CellAt(g, k) = 0
        /\ CellAt(h1, k) < CellAt(h2, k)
        /\ \A j \in 0..(k - 1) : CellAt(g, j) = 0 => CellAt(h1, j) = CellAt(h2, j)

C12_SolveOrder ==
    op = "solve" =>
        \A i \in 1..(Len(out.ret) - 1) : LexLess(grid, out.ret[i], out.ret[i + 1])

\* solve has returned several solutions, the first before the second
C12_Witness ==
    /\ op = "solve"
    /\ Len(out.ret) >= 2
    /\ LexLess(grid, out.ret[1], out.ret[2])
    /\ out.ret[1] # out.ret[2]

(***************************************************************************)
(* C13: the whole-row carve (and likewise the whole-column carve) tries    *)
(* the units in shuffled order, every attempt on the input grid as it was: *)
(* the result is the input with the first unit of that order that keeps    *)
(* the solution unique entirely blank and nothing else changed; when no    *)
(* unit keeps it unique the step yields absent, and generate() goes on     *)
(* with the grid it had.                                                   *)
(***************************************************************************)

\* g with row r (column c) entirely blank and every other cell as it is
RowBlanked(g, r) == [row \in 0..8 |-> [col \in 0..8 |-> IF row = r THEN 0 ELSE g[row][col]]]

ColBlanked(g, c) == [row \in 0..8 |-> [col \in 0..8 |-> IF col = c THEN 0 ELSE g[row][col]]]

\* the units of order tried before those still in units
TriedBefore(order) == {order[j] : j \in 1..(Len(order) - Len(units))}

C13_RowState ==
    pc = "row_returned" =>
        LET order == shuffle(INDICES_ARRAY, ShuffleOutcomes[rng].rows)
        IN  /\ units = SubSeq(order, Len(order) - Len(units) + 1, Len(order))
            /\ \A r \in TriedBefore(order) : ~has_unique_solution(RowBlanked(puzzle, r))
            /\ IF ret = None THEN units = <<>>
               ELSE /\ units # <<>>
                    /\ Unwrap(ret) = RowBlanked(puzzle, units[1])
                    /\ Len(solve(Unwrap(ret))) = 1

C13_ColState ==
    pc = "col_returned" =>
        LET order == shuffle(INDICES_ARRAY, ShuffleOutcomes[rng].cols)
        IN  /\ units = SubSeq(order, Len(order) - Len(units) + 1, Len(order))
            /\ \A c \in TriedBefore(order) : ~has_unique_solution(ColBlanked(puzzle, c))
            /\ IF ret = None THEN units = <<>>
               ELSE /\ units # <<>>
                    /\ Unwrap(ret) = ColBlanked(puzzle, units[1])
                    /\ Len(solve(Unwrap(ret))) = 1

\* the loops leave the input grid alone, and generate() takes the result of
\* a step, or the grid it had when the step yielded absent
C13_Step ==
    /\ (pc \in {"row", "col"} /\ pc' \in {"row", "row_returned", "col", "col_returned"})
           => puzzle' = puzzle
    /\ (pc \in {"row_returned", "col_returned"} /\ pc' \in {"col", "done"})
           => puzzle' = (IF ret = None THEN puzzle ELSE Unwrap(ret))

C13_UnitCarve == [](C13_RowState /\ C13_ColState) /\ [][C13_Step]_vars

\* generate() has gone on to the column carve with the grid of the cell
\* carve, the row carve having yielded absent
C13_Witness ==
    /\ pc = "col"
    /\ ret = None
    /\ BlankCount(puzzle) = TARGET_BLANKS_TO_GENERATE

\* the row carve has returned a grid after a row that failed
C13_ReachedRowSuccess ==
    /\ pc = "row_returned"
    /\ ret # None
    /\ Len(units) < 9

(***************************************************************************)
(* C14: create_random_blank_positions called with a count above 64         *)
(* returns absent: the loop is never entered, so no cell is blanked and no *)
(* uniqueness check made, and the call returns a value.                    *)
(***************************************************************************)
C14_CountRejected ==
    count > 64 =>
        /\ pc \in {"create_random_blank_positions", "positions_returned"}
        /\ positions = <<>>
        /\ blanks_created = 0
        /\ puzzle = EmptyGrid
        /\ solution = SolvedGrid
        /\ pc = "positions_returned" => ret = None

\* the call with count 65 has returned absent
C14_Witness ==
    /\ pc = "positions_returned"
    /\ count = 65
    /\ ret = None

\* the call with the largest small count has returned a puzzle with that
\* many blanks
C14_ReachedAccepted ==
    /\ pc = "positions_returned"
    /\ count = MaxCarve
    /\ ret # None
    /\ BlankCount(Unwrap(ret)) = count

(***************************************************************************)
(* C15: for the shuffled digit order of every run create_random_solution   *)
(* terminates: the search over the empty grid and all 81 positions never   *)
(* returns None to the retry loop, it ends, and the grid it returns passes *)
(* the validity check and has no zero cell.                                *)
(***************************************************************************)
C15_Returned == pc = "create_random_blank_positions"

C15_SeedGrid ==
    C15_Returned =>
        /\ is_valid_puzzle(solution)
        /\ ValidGrid(solution)
        /\ BlankCells(solution) = {}

\* the search does not hand None back to the loop of create_random_solution
C15_NoRetry == pc = "find_solution" => pc' # "create_random_solution"

C15_SeedTerminates == <>C15_Returned /\ []C15_SeedGrid /\ [][C15_NoRetry]_vars

\* create_random_solution has returned a grid found with a digit order
\* other than 1..9
C15_Witness ==
    /\ C15_Returned
    /\ shuffled_digits # DIGITS_ARRAY
    /\ BlankCells(solution) = {}
    /\ solution[0] = [col \in 0..8 |-> shuffled_digits[col + 1]]

(***************************************************************************)
(* C16: read_to_grid returns Ok(grid) or Err for every input text and      *)
(* never indexes outside the 9x9 grid: a text that is not 9 non-empty      *)
(* lines of 9 chars or 13 non-empty lines of 13 chars is reported as Err.  *)
(*                                                                         *)
(* The code does not do this.  Only the 13-line branch checks the length   *)
(* of the lines (io.rs:70-73); a 9-line text goes to the loops as it is,   *)
(* and a digit 1-9 at the tenth char or later of a line indexes            *)
(* grid[row][col] with col >= 9 (io.rs:110), which panics.  A 9-line text  *)
(* with a short line, or with a long line whose extra chars are no digits, *)
(* is read as Ok.                                                          *)
(***************************************************************************)

\* the non-empty lines of the text
NonEmptyLines(t) == SelectSeq(t, LAMBDA line : line # <<>>)

\* 9 lines of 9 chars, or 13 lines of 13 chars
IsCharGrid(t) ==
    LET lines == NonEmptyLines(t)
    IN  \E n \in {9, 13} : Len(lines) = n /\ \A i \in 1..n : Len(lines[i]) = n

\* C16, its first half: read_to_grid returns Ok or Err and never indexes
\* outside the grid.  Violated by a 9-line text whose first line has a
\* digit as its tenth char.
C16_NoOutOfBounds == op = "read_to_grid" => out.kind \in {"Ok", "Err"}

\* C16, its second half: a text that is no 9x9 or 13x13 char grid is
\* reported as Err.  Violated as well.
C16_MalformedIsErr ==
    (op = "read_to_grid" /\ ~IsCharGrid(text)) => out.kind = "Err"

\* a 9-line text whose first line has a digit as its tenth char has been
\* read: the loop indexed grid[0][9]
C16_OutOfBounds ==
    /\ op = "read_to_grid"
    /\ Len(NonEmptyLines(text)) = 9
    /\ Len(text[1]) = 10
    /\ out.kind = "Panic"

\* a 9-line text whose first line has its only out-of-range digit as its
\* fifteenth char has been read: the loop indexed grid[0][14]
C16_ReachedLongLinePanic ==
    /\ op = "read_to_grid"
    /\ Len(NonEmptyLines(text)) = 9
    /\ Len(text[1]) = 15
    /\ out.kind = "Panic"

\* a 9-line text with a line of 8 chars has been read as a grid
C16_ReachedShortLineOk ==
    /\ op = "read_to_grid"
    /\ Len(NonEmptyLines(text)) = 9
    /\ Len(text[1]) = 8
    /\ out.kind = "Ok"

\* what the code does guarantee: a char grid is read as Ok, with the digits
\* of the first line in row 0; a text with a number of non-empty lines
\* other than 9 and 13, or 13 lines not all of 13 chars, is an Err
C16_ReadsCharGrids ==
    op = "read_to_grid" =>
        LET lines == NonEmptyLines(text)
        IN  /\ IsCharGrid(text) =>
                /\ out.kind = "Ok"
                /\ out.grid[0][0] = 5 /\ out.grid[0][1] = 3 /\ out.grid[0][4] = 7
                /\ BlankCount(out.grid) = 81 - 3 * 9
            /\ Len(lines) \notin {9, 13} => out.kind = "Err"
            /\ (Len(lines) = 13 /\ \E i \in 1..13 : Len(lines[i]) # 13) => out.kind = "Err"

\* a 13x13 text has been read
C16_ReachedBordered ==
    /\ op = "read_to_grid"
    /\ Len(NonEmptyLines(text)) = 13
    /\ out.kind = "Ok"

====
